---------------------------- MODULE Spec2Model ----------------------------
(***************************************************************************)
(* Model of merge-subtitles.py: the reader of pipe-delimited subtitle      *)
(* files, the greedy matcher, the resolver and the three writers, driven   *)
(* by main().                                                              *)
(*                                                                         *)
(* Representation.                                                         *)
(*   - a line and a text are sequences of one-character strings;           *)
(*   - a time (Python float, seconds) is an integer number of tenths of a  *)
(*     second; the lines of the model carry at most one fractional digit;  *)
(*   - a score (Python float in [0,1]) is an exact fraction <<num, den>>   *)
(*     with den > 0;                                                       *)
(*   - an entry of a list is referred to by its position in the list       *)
(*     (Python object identity); position 0 stands for None.               *)
(***************************************************************************)
EXTENDS Integers, Sequences, FiniteSets, TLC

VARIABLES
    whisperFile,            \* WHISPER_FILE on disk: [exists, lines]
    manualFile,             \* MANUAL_FILE on disk: [exists, lines]
    PREFER_MANUAL_TEXT,     \* module-level policy flag
    PREFER_WHISPER_TIMING,  \* module-level policy flag
    pc,                     \* position of main()
    whisper_subs,           \* main: result of read_subtitle_file(WHISPER_FILE)
    manual_subs,            \* main: result of read_subtitle_file(MANUAL_FILE)
    merged,                 \* merge_subtitles: the list being built
    used_manual_indices,    \* merge_subtitles: set of consumed 'index' values
    merge_stats,            \* merge_subtitles: the four counters
    matchLog,               \* results of the find_best_match calls, in call order
    merged_subs,            \* main: the track handed to the writers
    stats,                  \* main: the statistics handed to the report
    txtOut,                 \* OUTPUT_MERGED_TXT: [written, lines]
    jsonOut,                \* OUTPUT_MERGED_JSON: [written, records]
    reportOut               \* OUTPUT_REPORT: [written, complete, stats, total, blocks]

vars == <<whisperFile, manualFile, PREFER_MANUAL_TEXT, PREFER_WHISPER_TIMING, pc,
          whisper_subs, manual_subs, merged, used_manual_indices, merge_stats,
          matchLog, merged_subs, stats, txtOut, jsonOut, reportOut>>

-----------------------------------------------------------------------------
(* Bounds of the model *)

\* Lines of WHISPER_FILE
MaxWhisperLines == 2

\* Lines of MANUAL_FILE
MaxManualLines == 2

\* Lines of MANUAL_FILE in the specification of the ties
MaxTieLines == 3

-----------------------------------------------------------------------------
(* Characters, strings and numbers *)

Digits == {"0", "1", "2", "3", "4", "5", "6", "7", "8", "9"}

DigitVal(c) ==
    CASE c = "0" -> 0 [] c = "1" -> 1 [] c = "2" -> 2 [] c = "3" -> 3
      [] c = "4" -> 4 [] c = "5" -> 5 [] c = "6" -> 6 [] c = "7" -> 7
      [] c = "8" -> 8 [] c = "9" -> 9

None == <<"None">>

Max(a, b) == IF a >= b THEN a ELSE b

Abs(a) == IF a >= 0 THEN a ELSE 0 - a

\* str.strip(): drop leading and trailing whitespace
RECURSIVE LStrip(_)
LStrip(s) ==
    IF s = <<>> \/ Head(s) # " " THEN s ELSE LStrip(Tail(s))

RECURSIVE RStrip(_)
RStrip(s) ==
    IF s = <<>> \/ s[Len(s)] # " " THEN s ELSE RStrip(SubSeq(s, 1, Len(s) - 1))

Strip(s) == RStrip(LStrip(s))

\* str.split('|'): the fields between the pipes, empty fields kept
RECURSIVE SplitPipe(_)
SplitPipe(s) ==
    IF \A k \in 1..Len(s) : s[k] # "|"
    THEN <<s>>
    ELSE LET k == CHOOSE k \in 1..Len(s) :
                      s[k] = "|" /\ \A j \in 1..(k - 1) : s[j] # "|"
         IN  <<SubSeq(s, 1, k - 1)>> \o SplitPipe(SubSeq(s, k + 1, Len(s)))

\* int(p) succeeds: a non-empty run of decimal digits
IsInt(p) == p # <<>> /\ \A k \in 1..Len(p) : p[k] \in Digits

RECURSIVE IntVal(_)
IntVal(p) ==
    IF p = <<>> THEN 0
    ELSE 10 * IntVal(SubSeq(p, 1, Len(p) - 1)) + DigitVal(p[Len(p)])

\* float(p) succeeds: digits with at most one decimal point and at least one digit
IsFloat(p) ==
    /\ \A k \in 1..Len(p) : p[k] \in Digits \cup {"."}
    /\ Cardinality({k \in 1..Len(p) : p[k] = "."}) <= 1
    /\ \E k \in 1..Len(p) : p[k] \in Digits

\* float(p), in tenths of a second
FloatVal(p) ==
    IF \A k \in 1..Len(p) : p[k] # "."
    THEN 10 * IntVal(p)
    ELSE LET d == CHOOSE k \in 1..Len(p) : p[k] = "."
         IN  10 * IntVal(SubSeq(p, 1, d - 1))
               + (IF d < Len(p) THEN DigitVal(p[d + 1]) ELSE 0)

-----------------------------------------------------------------------------
(* read_subtitle_file *)

\* One iteration of the loop over the lines: the entries the line adds
ParseLine(raw, line_num) ==
    LET line == Strip(raw) IN
    IF line = <<>> \/ Head(line) = "#" THEN <<>>
    ELSE LET split == SplitPipe(line)
             parts == [k \in 1..Len(split) |-> Strip(split[k])]
         IN  IF Len(parts) < 4 THEN <<>>
             ELSE IF ~IsInt(parts[1]) \/ ~IsFloat(parts[2]) \/ ~IsFloat(parts[3])
                  THEN <<>>    \* ValueError caught by the except clause
                  ELSE << [index    |-> IntVal(parts[1]),
                           start    |-> FloatVal(parts[2]),
                           end      |-> FloatVal(parts[3]),
                           text     |-> parts[4],
                           line_num |-> line_num] >>

\* Variant: the first line that fails to parse ends the loop
RECURSIVE ReadLines_StopAtBadLine(_, _)
ReadLines_StopAtBadLine(lines, n) ==
    IF n = 0 THEN <<>>
    ELSE LET prev == ReadLines_StopAtBadLine(lines, n - 1)
         IN  IF \E k \in 1..(n - 1) : ParseLine(lines[k], k) = <<>>
             THEN prev
             ELSE prev \o ParseLine(lines[n], n)

RECURSIVE ReadLines(_, _)
ReadLines(lines, n) ==
    IF n = 0 THEN <<>> ELSE ReadLines(lines, n - 1) \o ParseLine(lines[n], n)

read_subtitle_file(file) ==
    IF ~file.exists THEN <<>> ELSE ReadLines(file.lines, Len(file.lines))

-----------------------------------------------------------------------------
(* Scores as exact fractions <<num, den>>, den > 0 *)

Zero == <<0, 1>>

RatGT(x, y) == x[1] * y[2] > y[1] * x[2]

RatGE(x, y) == x[1] * y[2] >= y[1] * x[2]

RatEQ(x, y) == x[1] * y[2] = y[1] * x[2]

SIMILARITY_THRESHOLD == <<6, 10>>

-----------------------------------------------------------------------------
(* calculate_text_similarity *)

RemoveSpaces(t) == SelectSeq(t, LAMBDA c : c # " ")

Min(a, b) == IF a <= b THEN a ELSE b

\* difflib.SequenceMatcher.find_longest_match without junk, on the half-open
\* ranges a[alo:ahi], b[blo:bhi] (0-based): the longest common block, the one
\* starting earliest in a, and of those the one starting earliest in b.
FindLongestMatch(a, b, alo, ahi, blo, bhi) ==
    LET blocks == {blk \in ((alo..(ahi - 1)) \X (blo..(bhi - 1)) \X (1..Max(ahi - alo, 1))) :
                      /\ blk[3] <= Min(ahi - blk[1], bhi - blk[2])
                      /\ \A d \in 0..(blk[3] - 1) : a[blk[1] + d + 1] = b[blk[2] + d + 1]}
    IN  IF blocks = {} THEN <<alo, blo, 0>>
        ELSE CHOOSE x \in blocks : \A y \in blocks :
                 \/ x[3] > y[3]
                 \/ x[3] = y[3] /\ x[1] < y[1]
                 \/ x[3] = y[3] /\ x[1] = y[1] /\ x[2] <= y[2]

\* difflib.SequenceMatcher.get_matching_blocks: the total size of the blocks
\* found by splitting around the longest match, left and right
RECURSIVE MatchingSize(_, _, _, _, _, _)
MatchingSize(a, b, alo, ahi, blo, bhi) ==
    LET x == FindLongestMatch(a, b, alo, ahi, blo, bhi)
        i == x[1]
        j == x[2]
        k == x[3]
    IN  IF k = 0 THEN 0
        ELSE k + (IF alo < i /\ blo < j
                  THEN MatchingSize(a, b, alo, i, blo, j) ELSE 0)
               + (IF i + k < ahi /\ j + k < bhi
                  THEN MatchingSize(a, b, i + k, ahi, j + k, bhi) ELSE 0)

\* ratio() = 2.0 * matches / (len(t1) + len(t2))
calculate_text_similarity(text1, text2) ==
    LET t1 == Strip(RemoveSpaces(text1))
        t2 == Strip(RemoveSpaces(text2))
    IN  IF t1 = <<>> \/ t2 = <<>> THEN Zero
        ELSE <<2 * MatchingSize(t1, t2, 0, Len(t1), 0, Len(t2)), Len(t1) + Len(t2)>>

-----------------------------------------------------------------------------
(* find_best_match *)

\* combined_score of one candidate: 0.7 * text_sim + 0.3 * time_score, with
\* time_score = max(0, 1 - time_diff / 5.0) and time_diff in tenths of a second
CombinedScore(whisper_sub, manual_sub) ==
    LET text_sim   == calculate_text_similarity(whisper_sub.text, manual_sub.text)
        time_diff  == Abs(whisper_sub.start - manual_sub.start)
        time_score == <<Max(0, 50 - time_diff), 50>>
    IN  <<7 * text_sim[1] * time_score[2] + 3 * time_score[1] * text_sim[2],
          10 * text_sim[2] * time_score[2]>>

\* The loop over manual_subs after n iterations: [best_match, best_score]
RECURSIVE BestAfter(_, _, _, _)
BestAfter(whisper_sub, subs, used_indices, n) ==
    IF n = 0 THEN [best_match |-> 0, best_score |-> Zero]
    ELSE LET prev == BestAfter(whisper_sub, subs, used_indices, n - 1)
             combined_score == CombinedScore(whisper_sub, subs[n])
         IN  IF subs[n].index \in used_indices THEN prev
             ELSE IF /\ RatGT(combined_score, prev.best_score)
                     /\ RatGE(combined_score, SIMILARITY_THRESHOLD)
                  THEN [best_match |-> n, best_score |-> combined_score]
                  ELSE prev

\* Variant: the used set is not consulted
find_best_match_NoSkip(whisper_sub, subs, used_indices) ==
    BestAfter(whisper_sub, subs, {}, Len(subs))

find_best_match(whisper_sub, subs, used_indices) ==
    BestAfter(whisper_sub, subs, used_indices, Len(subs))

-----------------------------------------------------------------------------
(* merge_subtitles *)

\* Variant: the text is chosen by the timing flag
MergedSub_TextByTimingFlag(w_sub, subs, found, n, preferText, preferTiming) ==
    IF found.best_match # 0
    THEN LET manual_match == subs[found.best_match] IN
         [index        |-> n + 1,
          start        |-> IF preferTiming THEN w_sub.start ELSE manual_match.start,
          end          |-> IF preferTiming THEN w_sub.end ELSE manual_match.end,
          text         |-> IF preferTiming THEN manual_match.text ELSE w_sub.text,
          source       |-> "merged",
          match_score  |-> found.best_score,
          whisper_text |-> w_sub.text,
          manual_text  |-> manual_match.text]
    ELSE [index        |-> n + 1,
          start        |-> w_sub.start,
          end          |-> w_sub.end,
          text         |-> w_sub.text,
          source       |-> "whisper_only",
          match_score  |-> Zero,
          whisper_text |-> w_sub.text,
          manual_text  |-> None]

\* The record built for one Whisper entry, given the answer of find_best_match
MergedSub(w_sub, subs, found, n, preferText, preferTiming) ==
    IF found.best_match # 0
    THEN LET manual_match == subs[found.best_match] IN
         [index        |-> n + 1,
          start        |-> IF preferTiming THEN w_sub.start ELSE manual_match.start,
          end          |-> IF preferTiming THEN w_sub.end ELSE manual_match.end,
          text         |-> IF preferText THEN manual_match.text ELSE w_sub.text,
          source       |-> "merged",
          match_score  |-> found.best_score,
          whisper_text |-> w_sub.text,
          manual_text  |-> manual_match.text]
    ELSE [index        |-> n + 1,
          start        |-> w_sub.start,
          end          |-> w_sub.end,
          text         |-> w_sub.text,
          source       |-> "whisper_only",
          match_score  |-> Zero,
          whisper_text |-> w_sub.text,
          manual_text  |-> None]

\* Variant: the index of the accepted entry is not recorded
MarkUsed_Never(used, subs, found) == used

\* used_manual_indices.add(manual_match['index']) when a match was found
MarkUsed(used, subs, found) ==
    IF found.best_match # 0 THEN used \cup {subs[found.best_match].index} ELSE used

\* Variant: the perfect bucket starts above 0.8
CountResult_Above08(counters, found) ==
    IF found.best_match # 0
    THEN IF RatGT(found.best_score, <<8, 10>>)
         THEN [counters EXCEPT !.perfect_match = @ + 1]
         ELSE [counters EXCEPT !.fuzzy_match = @ + 1]
    ELSE [counters EXCEPT !.whisper_only = @ + 1]

\* The counter raised for one Whisper entry: score > 0.9 is a perfect match,
\* any other match a fuzzy one, no match a whisper_only
CountResult(counters, found) ==
    IF found.best_match # 0
    THEN IF RatGT(found.best_score, <<9, 10>>)
         THEN [counters EXCEPT !.perfect_match = @ + 1]
         ELSE [counters EXCEPT !.fuzzy_match = @ + 1]
    ELSE [counters EXCEPT !.whisper_only = @ + 1]

\* The second loop: every manual entry whose index is not in the used set
RECURSIVE AddUnmatched(_, _, _, _)
AddUnmatched(acc, subs, used, n) ==
    IF n = 0 THEN acc
    ELSE LET prev  == AddUnmatched(acc, subs, used, n - 1)
             m_sub == subs[n]
         IN  IF m_sub.index \notin used
             THEN Append(prev, [index        |-> Len(prev) + 1,
                                start        |-> m_sub.start,
                                end          |-> m_sub.end,
                                text         |-> m_sub.text,
                                source       |-> "manual_only",
                                match_score  |-> Zero,
                                whisper_text |-> None,
                                manual_text  |-> m_sub.text])
             ELSE prev

\* list.sort(key=start): stable, by insertion
\* Variant: the list is left in insertion order
SortByStart_Unsorted(s) == s

RECURSIVE SortByStart(_)
SortByStart(s) ==
    IF s = <<>> THEN <<>>
    ELSE LET front == SortByStart(SubSeq(s, 1, Len(s) - 1))
             x     == s[Len(s)]
             k     == Cardinality({i \in 1..Len(front) : front[i].start <= x.start})
         IN  SubSeq(front, 1, k) \o <<x>> \o SubSeq(front, k + 1, Len(front))

Reindex(s) == [i \in 1..Len(s) |-> [s[i] EXCEPT !.index = i]]

-----------------------------------------------------------------------------
(* The input files of the model *)

\* "1|0|1|ab"
LineAb1 == <<"1", "|", "0", "|", "1", "|", "a", "b">>

\* "2|0|1|ab"
LineAb2 == <<"2", "|", "0", "|", "1", "|", "a", "b">>

\* " 2 | 2 | 3 | a b "
LineSpaced == <<" ", "2", " ", "|", " ", "2", " ", "|", " ", "3", " ", "|", " ",
                "a", " ", "b", " ">>

\* "1|9|9.5|ba"
LineBa1 == <<"1", "|", "9", "|", "9", ".", "5", "|", "b", "a">>

\* "#c"
LineComment == <<"#", "c">>

\* " "
LineBlank == <<" ">>

\* "1|0|1"
LineThreeFields == <<"1", "|", "0", "|", "1">>

\* "x|0|1|ab"
LineBadIndex == <<"x", "|", "0", "|", "1", "|", "a", "b">>

\* "1|b|1|ab"
LineBadTiming == <<"1", "|", "b", "|", "1", "|", "a", "b">>

WhisperLines == {LineAb1, LineSpaced, LineComment, LineBadIndex}

ManualLines == {LineAb1, LineAb2, LineBa1, LineBlank, LineThreeFields, LineBadTiming}

SeqsUpTo(S, n) == UNION {[1..k -> S] : k \in 0..n}

Files(pool, n) ==
    {[exists |-> FALSE, lines |-> <<>>]}
        \cup {[exists |-> TRUE, lines |-> l] : l \in SeqsUpTo(pool, n)}

ZeroStats == [perfect_match |-> 0, fuzzy_match |-> 0, whisper_only |-> 0, manual_only |-> 0]

NotWritten == [written |-> FALSE]

\* main has not started: nothing read, nothing written
Start ==
    /\ pc = "read_whisper"
    /\ whisper_subs = <<>>
    /\ manual_subs = <<>>
    /\ merged = <<>>
    /\ used_manual_indices = {}
    /\ merge_stats = ZeroStats
    /\ matchLog = <<>>
    /\ merged_subs = <<>>
    /\ stats = ZeroStats
    /\ txtOut = NotWritten
    /\ jsonOut = NotWritten
    /\ reportOut = NotWritten

\* Any two input files of the model, any setting of the policy flags
Init ==
    /\ whisperFile \in Files(WhisperLines, MaxWhisperLines)
    /\ manualFile \in Files(ManualLines, MaxManualLines)
    /\ PREFER_MANUAL_TEXT \in BOOLEAN
    /\ PREFER_WHISPER_TIMING \in BOOLEAN
    /\ Start

\* Longer manual files of entries with the same text and timing, the policy
\* flags as the program sets them
InitTies ==
    /\ whisperFile \in Files({LineAb1}, MaxWhisperLines)
    /\ manualFile \in Files({LineAb1, LineAb2}, MaxTieLines)
    /\ PREFER_MANUAL_TEXT = TRUE
    /\ PREFER_WHISPER_TIMING = TRUE
    /\ Start

-----------------------------------------------------------------------------
(* main *)

policy == <<PREFER_MANUAL_TEXT, PREFER_WHISPER_TIMING>>

files == <<whisperFile, manualFile>>

mergeState == <<merged, used_manual_indices, merge_stats, matchLog>>

outputs == <<txtOut, jsonOut, reportOut>>

\* whisper_subs = read_subtitle_file(WHISPER_FILE)
ReadWhisper ==
    /\ pc = "read_whisper"
    /\ whisper_subs' = read_subtitle_file(whisperFile)
    /\ pc' = "read_manual"
    /\ UNCHANGED <<files, policy, manual_subs, mergeState, merged_subs, stats, outputs>>

\* manual_subs = read_subtitle_file(MANUAL_FILE)
ReadManual ==
    /\ pc = "read_manual"
    /\ manual_subs' = read_subtitle_file(manualFile)
    /\ pc' = "branch"
    /\ UNCHANGED <<files, policy, whisper_subs, mergeState, merged_subs, stats, outputs>>

\* Variant: the return is missing, main goes on with the manual-only branch
NothingToMerge_NoReturn ==
    /\ pc = "branch"
    /\ whisper_subs = <<>> /\ manual_subs = <<>>
    /\ merged_subs' = manual_subs
    /\ stats' = [ZeroStats EXCEPT !.manual_only = Len(manual_subs)]
    /\ pc' = "save_txt"
    /\ UNCHANGED <<files, policy, whisper_subs, manual_subs, mergeState, outputs>>

\* if not whisper_subs and not manual_subs: print error, return
NothingToMerge ==
    /\ pc = "branch"
    /\ whisper_subs = <<>> /\ manual_subs = <<>>
    /\ pc' = "nothing"
    /\ UNCHANGED <<files, policy, whisper_subs, manual_subs, mergeState, merged_subs,
                   stats, outputs>>

\* if not whisper_subs: merged_subs = manual_subs
UseManualOnly ==
    /\ pc = "branch"
    /\ whisper_subs = <<>> /\ manual_subs # <<>>
    /\ merged_subs' = manual_subs
    /\ stats' = [ZeroStats EXCEPT !.manual_only = Len(manual_subs)]
    /\ pc' = "save_txt"
    /\ UNCHANGED <<files, policy, whisper_subs, manual_subs, mergeState, outputs>>

\* elif not manual_subs: merged_subs = whisper_subs
UseWhisperOnly ==
    /\ pc = "branch"
    /\ whisper_subs # <<>> /\ manual_subs = <<>>
    /\ merged_subs' = whisper_subs
    /\ stats' = [ZeroStats EXCEPT !.whisper_only = Len(whisper_subs)]
    /\ pc' = "save_txt"
    /\ UNCHANGED <<files, policy, whisper_subs, manual_subs, mergeState, outputs>>

\* else: merge_subtitles(whisper_subs, manual_subs) is entered
EnterMerge ==
    /\ pc = "branch"
    /\ whisper_subs # <<>> /\ manual_subs # <<>>
    /\ merged' = <<>>
    /\ used_manual_indices' = {}
    /\ merge_stats' = ZeroStats
    /\ matchLog' = <<>>
    /\ pc' = "merge_loop"
    /\ UNCHANGED <<files, policy, whisper_subs, manual_subs, merged_subs, stats, outputs>>

\* merge_subtitles: one iteration of the loop over whisper_subs
MatchNext ==
    /\ pc = "merge_loop"
    /\ Len(merged) < Len(whisper_subs)
    /\ LET w_sub == whisper_subs[Len(merged) + 1]
           found == find_best_match(w_sub, manual_subs, used_manual_indices)
           merged_sub == MergedSub(w_sub, manual_subs, found, Len(merged),
                                   PREFER_MANUAL_TEXT, PREFER_WHISPER_TIMING)
       IN  /\ used_manual_indices' = MarkUsed(used_manual_indices, manual_subs, found)
           /\ merge_stats' = CountResult(merge_stats, found)
           /\ merged' = Append(merged, merged_sub)
           /\ matchLog' = Append(matchLog, [used |-> used_manual_indices,
                                            best_match |-> found.best_match,
                                            best_score |-> found.best_score])
    /\ UNCHANGED <<files, policy, pc, whisper_subs, manual_subs, merged_subs, stats, outputs>>

\* The place of entry j of the list after the stable sort by start
RankByStart(all, j) ==
    Cardinality({i \in DOMAIN all :
                    \/ all[i].start < all[j].start
                    \/ all[i].start = all[j].start /\ i <= j})

\* Variant: the unmatched manual entries are appended themselves, not as new
\* records, so the re-indexing writes their 'index'
FinishMerge_SharesEntries ==
    /\ pc = "merge_loop"
    /\ Len(merged) = Len(whisper_subs)
    /\ LET all == AddUnmatched(merged, manual_subs, used_manual_indices, Len(manual_subs))
           final == Reindex(SortByStart(all))
           unmatched == {h \in DOMAIN manual_subs :
                            manual_subs[h].index \notin used_manual_indices}
           place(h) == Len(merged) + Cardinality({g \in unmatched : g <= h})
       IN  /\ merged' = final
           /\ merged_subs' = final
           /\ merge_stats' = [merge_stats EXCEPT !.manual_only = Len(all) - Len(merged)]
           /\ stats' = merge_stats'
           /\ manual_subs' = [h \in DOMAIN manual_subs |->
                                 IF h \in unmatched
                                 THEN [manual_subs[h] EXCEPT
                                          !.index = RankByStart(all, place(h))]
                                 ELSE manual_subs[h]]
    /\ pc' = "save_txt"
    /\ UNCHANGED <<files, policy, whisper_subs, used_manual_indices, matchLog, outputs>>

\* merge_subtitles: the loop over manual_subs, the sort, the re-indexing and
\* the return to main; every record appended is a new one (lines 126, 143,
\* 160), so the writes of the re-indexing do not reach the entries read
FinishMerge ==
    /\ pc = "merge_loop"
    /\ Len(merged) = Len(whisper_subs)
    /\ LET all == AddUnmatched(merged, manual_subs, used_manual_indices, Len(manual_subs))
           final == Reindex(SortByStart(all))
       IN  /\ merged' = final
           /\ merged_subs' = final
           /\ merge_stats' = [merge_stats EXCEPT !.manual_only = Len(all) - Len(merged)]
           /\ stats' = merge_stats'
    /\ pc' = "save_txt"
    /\ UNCHANGED <<files, policy, whisper_subs, manual_subs, used_manual_indices, matchLog,
                   outputs>>

\* save_merged_txt: one "start | end | text" line per entry
SaveTxt ==
    /\ pc = "save_txt"
    /\ txtOut' = [written |-> TRUE,
                  lines |-> [i \in 1..Len(merged_subs) |->
                                <<merged_subs[i].start, merged_subs[i].end,
                                  merged_subs[i].text>>]]
    /\ pc' = "save_json"
    /\ UNCHANGED <<files, policy, whisper_subs, manual_subs, mergeState, merged_subs, stats,
                   jsonOut, reportOut>>

\* save_merged_json: the records as they are
SaveJson ==
    /\ pc = "save_json"
    /\ jsonOut' = [written |-> TRUE, records |-> merged_subs]
    /\ pc' = "save_report"
    /\ UNCHANGED <<files, policy, whisper_subs, manual_subs, mergeState, merged_subs, stats,
                   txtOut, reportOut>>

\* The keys save_merge_report reads from every entry
ReportKeys == {"index", "start", "end", "source", "match_score", "text",
               "whisper_text", "manual_text"}

\* The number of leading entries whose block the report loop can write
RECURSIVE BlocksWritten(_)
BlocksWritten(subs) ==
    IF subs = <<>> \/ ~(ReportKeys \subseteq DOMAIN Head(subs)) THEN 0
    ELSE 1 + BlocksWritten(Tail(subs))

\* A Python text passes "if text:" when it is neither None nor empty
Truthy(t) == t # None /\ t # <<>>

ReportBlock(sub) ==
    [index |-> sub.index, start |-> sub.start, end |-> sub.end, source |-> sub.source,
     match_score |-> IF RatGT(sub.match_score, Zero) THEN sub.match_score ELSE None,
     text |-> sub.text,
     whisper |-> IF Truthy(sub.whisper_text) THEN sub.whisper_text ELSE None,
     manual |-> IF Truthy(sub.manual_text) THEN sub.manual_text ELSE None]

\* save_merge_report runs to its end; main returns
SaveReport ==
    /\ pc = "save_report"
    /\ BlocksWritten(merged_subs) = Len(merged_subs)
    /\ reportOut' = [written |-> TRUE, complete |-> TRUE, stats |-> stats,
                     total |-> Len(merged_subs),
                     blocks |-> [i \in 1..Len(merged_subs) |-> ReportBlock(merged_subs[i])]]
    /\ pc' = "done"
    /\ UNCHANGED <<files, policy, whisper_subs, manual_subs, mergeState, merged_subs, stats,
                   txtOut, jsonOut>>

\* save_merge_report raises KeyError at the first entry without the keys it
\* reads; the exception leaves main
SaveReportKeyError ==
    /\ pc = "save_report"
    /\ BlocksWritten(merged_subs) < Len(merged_subs)
    /\ reportOut' = [written |-> TRUE, complete |-> FALSE, stats |-> stats,
                     total |-> Len(merged_subs),
                     blocks |-> [i \in 1..BlocksWritten(merged_subs) |->
                                    ReportBlock(merged_subs[i])]]
    /\ pc' = "KeyError"
    /\ UNCHANGED <<files, policy, whisper_subs, manual_subs, mergeState, merged_subs, stats,
                   txtOut, jsonOut>>

Next ==
    \/ ReadWhisper
    \/ ReadManual
    \/ NothingToMerge
    \/ UseManualOnly
    \/ UseWhisperOnly
    \/ EnterMerge
    \/ MatchNext
    \/ FinishMerge
    \/ SaveTxt
    \/ SaveJson
    \/ SaveReport
    \/ SaveReportKeyError

Spec == Init /\ [][Next]_vars

SpecTies == InitTies /\ [][Next]_vars

-----------------------------------------------------------------------------
(* Vocabulary of the properties *)

\* main is past merge_subtitles, which it called (both sources non-empty)
Merged == pc \in {"save_txt", "save_json", "save_report", "done", "KeyError"}
              /\ whisper_subs # <<>> /\ manual_subs # <<>>

\* main has ended, normally or not
Ended == pc \in {"done", "nothing", "KeyError"}

Threshold == <<6, 10>>

\* The score of machine entry k against human entry h, by the formula of the
\* specification
Score(k, h) == CombinedScore(whisper_subs[k], manual_subs[h])

\* The human entries (positions) accepted as a partner before call k
Consumed(k) == {matchLog[j].best_match : j \in 1..(k - 1)} \ {0}

\* The human entries (positions) not accepted as a partner before call k
Free(k) == (1..Len(manual_subs)) \ Consumed(k)

Matched == {k \in DOMAIN matchLog : matchLog[k].best_match # 0}

WithSource(track, src) == {i \in DOMAIN track : track[i].source = src}

-----------------------------------------------------------------------------
(* C1 *)

\* C1: no human entry is the partner of more than one machine entry: the
\* accepted partners of the find_best_match calls are pairwise distinct,
\* the 'merged' records are exactly the records of the accepting calls, and
\* the returned track holds as many 'merged' entries as there were accepting
\* calls.
C1_NoHumanConsumedTwice ==
    /\ \A i, j \in Matched : i # j => matchLog[i].best_match # matchLog[j].best_match
    /\ pc = "merge_loop" =>
          \A k \in DOMAIN merged : (merged[k].source = "merged") <=> (k \in Matched)
    /\ Merged => Cardinality(WithSource(merged_subs, "merged")) = Cardinality(Matched)

\* Two machine entries were matched, and the second scored above the
\* threshold against the partner of the first
C1_Witness ==
    /\ Merged
    /\ {1, 2} \subseteq Matched
    /\ RatGE(Score(2, matchLog[1].best_match), Threshold)

-----------------------------------------------------------------------------
(* C2 *)

\* C2: the returned track has one entry per match, per unmatched machine
\* entry and per unmatched human entry: its length is count(machine) +
\* count(human) - count(matched), and the human entries never accepted as a
\* partner each appear once as 'manual_only'.
C2_TrackLength ==
    Merged =>
        /\ Len(merged_subs) = Cardinality(WithSource(merged_subs, "merged"))
                                + Cardinality(WithSource(merged_subs, "whisper_only"))
                                + Cardinality(WithSource(merged_subs, "manual_only"))
        /\ Len(merged_subs) = Len(whisper_subs) + Len(manual_subs) - Cardinality(Matched)
        /\ Cardinality(WithSource(merged_subs, "manual_only"))
              = Cardinality(Free(Len(matchLog) + 1))

-----------------------------------------------------------------------------
(* C3 *)

SortedByStart(track) ==
    \A i \in 1..(Len(track) - 1) : track[i].start <= track[i + 1].start

\* C3 as stated: every track main saves is in chronological order, the
\* pass-through track of a run with one empty source included.
C3_SavedTrackSorted ==
    txtOut.written =>
        /\ SortedByStart(merged_subs)
        /\ \A i \in 1..(Len(txtOut.lines) - 1) : txtOut.lines[i][1] <= txtOut.lines[i + 1][1]

\* C3 amended: the track merge_subtitles returns, and main saves, is in
\* chronological order whatever the order of the entries in the files.
C3_MergeResultSorted ==
    Merged =>
        /\ SortedByStart(merged_subs)
        /\ txtOut.written =>
              \A i \in 1..(Len(txtOut.lines) - 1) :
                  txtOut.lines[i][1] <= txtOut.lines[i + 1][1]

\* A merged track was saved whose machine entries came out of order from the file
C3_Witness ==
    /\ Merged
    /\ txtOut.written
    /\ Len(whisper_subs) = 2
    /\ whisper_subs[1].start > whisper_subs[2].start

-----------------------------------------------------------------------------
(* C4 *)

Tagged(track, src) ==
    \A i \in DOMAIN track : "source" \in DOMAIN track[i] /\ track[i].source = src

SameEntries(track, subs) ==
    /\ Len(track) = Len(subs)
    /\ \A i \in DOMAIN subs :
          /\ track[i].start = subs[i].start
          /\ track[i].end = subs[i].end
          /\ track[i].text = subs[i].text

AllProduced ==
    /\ pc = "done"
    /\ txtOut.written
    /\ jsonOut.written
    /\ reportOut.written /\ reportOut.complete

\* C4: a run with exactly one empty source completes with the three outputs
\* produced, the track being the entries of the other source verbatim, all
\* tagged with that source, and no match counted.
C4_PassThroughCompletes ==
    /\ (Ended /\ whisper_subs # <<>> /\ manual_subs = <<>>) =>
          /\ AllProduced
          /\ SameEntries(merged_subs, whisper_subs)
          /\ Tagged(merged_subs, "whisper_only")
          /\ stats.perfect_match + stats.fuzzy_match = 0
    /\ (Ended /\ whisper_subs = <<>> /\ manual_subs # <<>>) =>
          /\ AllProduced
          /\ SameEntries(merged_subs, manual_subs)
          /\ Tagged(merged_subs, "manual_only")
          /\ stats.perfect_match + stats.fuzzy_match = 0

-----------------------------------------------------------------------------
(* C5 *)

\* C5: every call of find_best_match returns a human entry exactly when some
\* human entry not yet consumed scores at least 0.6; the entry returned is
\* not yet consumed, its score is the highest among the entries not yet
\* consumed and is the score returned; otherwise the call returns no entry
\* and score 0.
C5_BestMatch ==
    \A k \in DOMAIN matchLog :
        LET r == matchLog[k] IN
        /\ (r.best_match # 0) <=> (\E h \in Free(k) : RatGE(Score(k, h), Threshold))
        /\ r.best_match # 0 =>
              /\ r.best_match \in Free(k)
              /\ RatEQ(r.best_score, Score(k, r.best_match))
              /\ \A h \in Free(k) : RatGE(r.best_score, Score(k, h))
        /\ r.best_match = 0 => r.best_score = Zero

-----------------------------------------------------------------------------
(* C6 *)

\* The human entries not yet consumed that share the highest score of call k
Top(k) == {h \in Free(k) : \A g \in Free(k) : RatGE(Score(k, h), Score(k, g))}

\* C6: when several human entries not yet consumed share the highest score
\* and it reaches 0.6, the call returns the first of them in the order of
\* the human sequence.
C6_FirstOfTies ==
    \A k \in DOMAIN matchLog :
        (/\ Cardinality(Top(k)) >= 2
         /\ \E h \in Top(k) : RatGE(Score(k, h), Threshold))
            => /\ matchLog[k].best_match \in Top(k)
               /\ \A h \in Top(k) : matchLog[k].best_match <= h

-----------------------------------------------------------------------------
(* C7 *)

\* The machine entries handled so far that score at least 0.6 against human entry h
Reaching(h) == {k \in DOMAIN merged : RatGE(Score(k, h), Threshold)}

\* C7: with a single human entry, the first machine entry in processing
\* order that scores at least 0.6 against it is emitted as 'merged' with
\* that score, and every later machine entry that scores at least 0.6
\* against it is emitted as 'whisper_only' with score 0, whatever its score.
C7_GreedyFirstFit ==
    (pc = "merge_loop" /\ Len(manual_subs) = 1) =>
        \A k \in Reaching(1) :
            IF \A j \in Reaching(1) : k <= j
            THEN /\ merged[k].source = "merged"
                 /\ merged[k].manual_text = manual_subs[1].text
                 /\ RatEQ(merged[k].match_score, Score(k, 1))
            ELSE /\ merged[k].source = "whisper_only"
                 /\ merged[k].match_score = Zero
                 /\ merged[k].manual_text = None

\* Two machine entries reach the threshold against the single human entry
\* and the second scores higher than the first
C7_Witness ==
    /\ pc = "merge_loop"
    /\ Len(manual_subs) = 1
    /\ Len(merged) = 2
    /\ Reaching(1) = {1, 2}
    /\ RatGT(Score(2, 1), Score(1, 1))

-----------------------------------------------------------------------------
(* C8 *)

\* The record e resolves the pair (machine entry w, human entry h) by the flags
Resolves(e, w, h) ==
    /\ e.source = "merged"
    /\ e.text = (IF PREFER_MANUAL_TEXT THEN h.text ELSE w.text)
    /\ e.start = (IF PREFER_WHISPER_TIMING THEN w.start ELSE h.start)
    /\ e.end = (IF PREFER_WHISPER_TIMING THEN w.end ELSE h.end)
    /\ e.whisper_text = w.text
    /\ e.manual_text = h.text

\* C8: under every setting of the two flags, the record of a matched pair
\* has source 'merged', the text of the preferred side, start and end of the
\* preferred side, and both original texts; the records keep these fields
\* through the sort, the re-indexing and into the report.
C8_MatchedPairResolution ==
    /\ pc = "merge_loop" =>
          \A k \in Matched :
              Resolves(merged[k], whisper_subs[k], manual_subs[matchLog[k].best_match])
    /\ Merged =>
          \A i \in WithSource(merged_subs, "merged") :
              \E k \in Matched :
                  Resolves(merged_subs[i], whisper_subs[k],
                           manual_subs[matchLog[k].best_match])
    /\ (Merged /\ pc = "done") =>
          \A i \in WithSource(merged_subs, "merged") :
              /\ reportOut.blocks[i].whisper = merged_subs[i].whisper_text
              /\ reportOut.blocks[i].manual = merged_subs[i].manual_text

\* A pair with different texts and different timings was matched with both
\* flags off, and the run ended
C8_Witness ==
    /\ pc = "done"
    /\ ~PREFER_MANUAL_TEXT
    /\ ~PREFER_WHISPER_TIMING
    /\ \E k \in Matched :
          LET w == whisper_subs[k]
              h == manual_subs[matchLog[k].best_match]
          IN  w.text # h.text /\ w.start # h.start /\ w.end # h.end

-----------------------------------------------------------------------------
(* C9 *)

NoOutput == ~txtOut.written /\ ~jsonOut.written /\ ~reportOut.written

\* C9: when both sources yield no entry, main ends in the 'nothing to merge'
\* outcome and writes no output; when both sources are non-empty, main ends
\* normally with the three outputs written, and if no pair was matched every
\* entry is tagged 'whisper_only' or 'manual_only'.
C9_NothingVersusNoMatch ==
    /\ (pc \notin {"read_whisper", "read_manual"} /\ whisper_subs = <<>> /\ manual_subs = <<>>)
          => (pc \in {"branch", "nothing"} /\ NoOutput)
    /\ pc = "nothing" => (whisper_subs = <<>> /\ manual_subs = <<>>)
    /\ (Ended /\ whisper_subs # <<>> /\ manual_subs # <<>>) => AllProduced
    /\ (Merged /\ Matched = {}) =>
          /\ Len(merged_subs) = Len(whisper_subs) + Len(manual_subs)
          /\ \A i \in DOMAIN merged_subs :
                merged_subs[i].source \in {"whisper_only", "manual_only"}
          /\ pc = "done" =>
                \A i \in DOMAIN merged_subs :
                    reportOut.blocks[i].source = merged_subs[i].source

\* Both files exist and hold lines, none of them an entry: nothing to merge
C9_Witness ==
    /\ pc = "nothing"
    /\ whisperFile.exists /\ whisperFile.lines # <<>>
    /\ manualFile.exists /\ manualFile.lines # <<>>

\* Both sources non-empty, no pair matched, all outputs written
C9_WitnessNoMatch ==
    /\ pc = "done"
    /\ whisper_subs # <<>> /\ manual_subs # <<>>
    /\ Matched = {}

-----------------------------------------------------------------------------
(* C10 *)

\* What a reader of the format expects of each line of the model: no entry
\* for a blank line, a comment, a line of three fields, a line whose index
\* or timing is not a number; one entry for each of the other lines.
ExpectedFields(raw) ==
    CASE raw = LineAb1 -> <<[index |-> 1, start |-> 0, end |-> 10, text |-> <<"a", "b">>]>>
      [] raw = LineAb2 -> <<[index |-> 2, start |-> 0, end |-> 10, text |-> <<"a", "b">>]>>
      [] raw = LineSpaced ->
             <<[index |-> 2, start |-> 20, end |-> 30, text |-> <<"a", " ", "b">>]>>
      [] raw = LineBa1 -> <<[index |-> 1, start |-> 90, end |-> 95, text |-> <<"b", "a">>]>>
      [] raw \in {LineBlank, LineComment, LineThreeFields, LineBadIndex, LineBadTiming}
             -> <<>>

WellFormed(raw) == ExpectedFields(raw) # <<>>

\* subs holds one entry per well-formed line of the file, in file order
OneEntryPerGoodLine(subs, file) ==
    LET good == {n \in DOMAIN file.lines : WellFormed(file.lines[n])} IN
    /\ Len(subs) = Cardinality(good)
    /\ {subs[i].line_num : i \in DOMAIN subs} = good
    /\ \A i \in 1..(Len(subs) - 1) : subs[i].line_num < subs[i + 1].line_num
    /\ \A i \in DOMAIN subs :
          LET f == ExpectedFields(file.lines[subs[i].line_num])[1] IN
          /\ subs[i].index = f.index
          /\ subs[i].start = f.start
          /\ subs[i].end = f.end
          /\ subs[i].text = f.text

\* C10: reading a file never fails and never stops at a bad line: the
\* result holds one entry per well-formed line, in file order, every blank,
\* comment, short or non-numeric line being skipped on its own; an absent
\* file gives the empty sequence.
C10_ReadSkipsBadLines ==
    /\ pc # "read_whisper" =>
          IF whisperFile.exists THEN OneEntryPerGoodLine(whisper_subs, whisperFile)
          ELSE whisper_subs = <<>>
    /\ pc \notin {"read_whisper", "read_manual"} =>
          IF manualFile.exists THEN OneEntryPerGoodLine(manual_subs, manualFile)
          ELSE manual_subs = <<>>

\* A file was read whose first line is bad and whose second line is good,
\* the other file being absent
C10_Witness ==
    /\ pc = "branch"
    /\ ~whisperFile.exists
    /\ Len(manualFile.lines) = 2
    /\ manualFile.lines[1] = LineBadTiming
    /\ Len(manual_subs) = 1
    /\ manual_subs[1].line_num = 2

-----------------------------------------------------------------------------
(* C11 *)

\* C11: merge_subtitles does not change its inputs: no step of it, from the
\* first Whisper entry to the return, changes the machine or the human
\* sequence or any field of their entries, 'index' included; the sort and the
\* re-indexing reach the returned records only, which are numbered 1..N.
C11_InputsNotMutated ==
    [][pc = "merge_loop" =>
          /\ whisper_subs' = whisper_subs
          /\ manual_subs' = manual_subs
          /\ pc' = "save_txt" =>
                \A i \in DOMAIN merged_subs' : merged_subs'[i].index = i]_vars

\* merge_subtitles has returned a track in which a human entry stands at a
\* place other than its own 'index', and in which the sort moved a machine
\* entry
C11_Witness ==
    /\ Merged
    /\ \E i \in WithSource(merged_subs, "manual_only") :
          \E h \in DOMAIN manual_subs :
              /\ manual_subs[h].text = merged_subs[i].text
              /\ manual_subs[h].start = merged_subs[i].start
              /\ manual_subs[h].index # i
    /\ Len(whisper_subs) = 2
    /\ whisper_subs[1].start > whisper_subs[2].start

-----------------------------------------------------------------------------
(* C12 *)

\* The 'merged' entries of the track whose score is above 0.9
PerfectIn(track) ==
    {i \in WithSource(track, "merged") : RatGT(track[i].match_score, <<9, 10>>)}

\* The 'merged' entries of the track whose score is at most 0.9
FuzzyIn(track) ==
    {i \in WithSource(track, "merged") : ~RatGT(track[i].match_score, <<9, 10>>)}

\* C12: the statistics merge_subtitles returns count the entries of the
\* track it returns: perfect_match the 'merged' entries scoring above 0.9,
\* fuzzy_match the 'merged' entries scoring at most 0.9, each at least 0.6,
\* whisper_only and manual_only the entries of those sources, each with
\* score 0; the four counts add up to the length of the track, and the
\* report carries the same counts.
C12_StatsAgreeWithTrack ==
    Merged =>
        /\ stats.perfect_match = Cardinality(PerfectIn(merged_subs))
        /\ stats.fuzzy_match = Cardinality(FuzzyIn(merged_subs))
        /\ \A i \in FuzzyIn(merged_subs) : RatGE(merged_subs[i].match_score, Threshold)
        /\ stats.whisper_only = Cardinality(WithSource(merged_subs, "whisper_only"))
        /\ stats.manual_only = Cardinality(WithSource(merged_subs, "manual_only"))
        /\ \A i \in WithSource(merged_subs, "whisper_only")
                      \cup WithSource(merged_subs, "manual_only") :
              merged_subs[i].match_score = Zero
        /\ stats.perfect_match + stats.fuzzy_match + stats.whisper_only + stats.manual_only
              = Len(merged_subs)
        /\ reportOut.written => (reportOut.stats = stats /\ reportOut.total = Len(merged_subs))

\* A merge that ended with one perfect and one fuzzy match
C12_Witness ==
    /\ Merged
    /\ pc = "done"
    /\ stats.perfect_match = 1
    /\ stats.fuzzy_match = 1

\* A merge that ended with a fuzzy match, a whisper_only and a manual_only entry
C12_WitnessMixed ==
    /\ Merged
    /\ pc = "done"
    /\ stats.fuzzy_match >= 1
    /\ stats.whisper_only >= 1
    /\ stats.manual_only >= 1

=============================================================================
